---- MODULE Spec2Model ----
(***************************************************************************)
(* A model of ipv6.c: the table-driven parser ipv6_from_str_diag, the      *)
(* formatter ipv6_to_str and the comparator ipv6_compare.                  *)
(*                                                                         *)
(* Text is a sequence of one-character strings.  Array indices are the C   *)
(* indices (components is a function on 0..7).  32-bit values are kept in  *)
(* their width; arithmetic that the C code performs on int32_t or uint32_t *)
(* is done on 16-bit halves so that no intermediate value leaves the       *)
(* 32-bit range.                                                           *)
(*                                                                         *)
(* Two things are not fixed by the source.  The host byte order (the IPv4  *)
(* tail is written and read through a uint8_t alias of the uint16_t        *)
(* components) is drawn in every initial state.  Signed overflow in the    *)
(* token accumulators is undefined behaviour: where it happens the step    *)
(* has two outcomes, the wrapped value and a trap that ends the process.   *)
(***************************************************************************)
EXTENDS Integers, Sequences, FiniteSets, TLC

VARIABLES
    build,      \* [endian]: the byte order of the host
    pc,         \* where the modelled call sequence stands
    input,      \* the bytes of the input buffer fixed so far (a prefix of it)
    input_bytes, \* the input_bytes argument: the length of the input
    state,      \* ipv6_reader_state_t
    out,        \* the caller's ipv6_address_full_t the parser writes
    diag,       \* the diagnostic callback's invocations, in order
    ret,        \* ipv6_from_str_diag's return value ("none" before return)
    addr,       \* the address handed to ipv6_to_str
    size,       \* the size handed to ipv6_to_str
    fmt,        \* the result of ipv6_to_str(addr, size)
    fmt2,       \* the result of ipv6_to_str(out, size) after a parse
    cmp,        \* results of ipv6_compare
    third       \* a third address, for ipv6_compare

vars ==
    <<build, pc, input, input_bytes, state, out, diag, ret, addr, size, fmt, fmt2,
      cmp, third>>

---------------------------------------------------------------------------
(* Program constants *)

IPV6_NUM_COMPONENTS == 8
IPV6_STRING_SIZE == 66

STATE_NONE == 0
STATE_ADDR_COMPONENT == 1
STATE_V6_SEPARATOR == 2
STATE_ZERORUN == 3
STATE_CIDR == 4
STATE_IFACE == 5
STATE_PORT == 6
STATE_POST_ADDR == 7
STATE_ERROR == 8

EC_DIGIT == 0
EC_HEX_DIGIT == 1
EC_V4_COMPONENT_SEP == 2
EC_V6_COMPONENT_SEP == 3
EC_CIDR_MASK == 4
EC_IFACE == 5
EC_OPEN_BRACKET == 6
EC_CLOSE_BRACKET == 7
EC_WHITESPACE == 8

\* The flag bits of ipv6_address_full_t.flags (ipv6.h).
IPV6_FLAG_HAS_PORT == 1
IPV6_FLAG_HAS_MASK == 2
IPV6_FLAG_IPV4_EMBED == 4

AddressFlags == {IPV6_FLAG_HAS_PORT, IPV6_FLAG_HAS_MASK, IPV6_FLAG_IPV4_EMBED}

---------------------------------------------------------------------------
(* Bounds of the model *)

\* The longest input of SpecParse, whose input bytes are unconstrained.
MaxInput == 6

\* The bytes an unconstrained input byte is drawn from: a decimal digit, a hex
\* letter, each separator, a blank, and a byte of no event class.
Alphabet == {"1", "f", ":", ".", "/", "%", "[", "]", " ", "x"}

\* The longest input of SpecQuad, whose input bytes are unconstrained over the
\* bytes of a dotted quad and of the zero-run abbreviation.
MaxQuadInput == 10

QuadAlphabet == {"1", ":", ".", " "}

\* The longest input of SpecGroups, whose input bytes are unconstrained over
\* the bytes of a hexadecimal group, of its separator and of a dotted quad:
\* nine groups of one digit are 17 bytes.
MaxGroupInput == 17

GroupAlphabet == {"1", ":", "."}

\* The longest input of SpecLength, whose input bytes are unconstrained over
\* a blank and ':': one byte more than IPV6_STRING_SIZE.
MaxLongInput == 67

PadAlphabet == {" ", ":"}

\* SpecZone reads every zone of at most this many bytes over ZoneBytes.
MaxZone == 3

ZoneBytes == {"1", "e", "t", "/", ":"}

\* SpecMask reads every mask token of at most this many digits over
\* TokenDigits, the masks 64, 128 and 129, and each zone of MaskZones.
MaxMaskToken == 3

MaskZones == {<<>>, <<"1">>, <<"e", "1">>, <<"/", ":">>}

\* SpecBlank reads every input of at most this many bytes over BlankAlphabet,
\* and the two longer inputs of BlankInputs.
MaxBlankInput == 6

BlankAlphabet == {"1", ":", ".", " "}

\* SpecToken reads every token of at most this many digits over TokenDigits,
\* and the longer tokens listed below.
MaxShortToken == 3

TokenDigits == {"0", "1", "9"}
TokenHexDigits == {"0", "1", "f"}

\* Hexadecimal tokens at the limits of 16 bits and of the 32-bit accumulator.
LongHexTokens ==
    { <<"f", "f", "f", "f">>,
      <<"1", "0", "0", "0", "0">>,
      <<"f", "f", "f", "f", "f">>,
      <<"0", "0", "0", "0", "f", "f", "f", "f">>,
      <<"0", "0", "0", "1", "0", "0", "0", "0">>,
      <<"1", "0", "0", "0", "0", "0", "0", "0">>,
      <<"8", "0", "0", "0", "0", "0", "0", "0">>,
      <<"f", "f", "f", "f", "0", "0", "0", "1">>,
      <<"1", "0", "0", "0", "0", "0", "0", "0", "0">>,
      <<"1", "0", "0", "0", "0", "0", "0", "0", "1">>,
      <<"f", "f", "f", "f", "f", "f", "f", "f", "f">> }

\* Decimal tokens at the limits of the three fields and of the accumulator:
\* 2^31 - 1, 2^31, 2^31 + 255, 2^32 - 1, 2^32, 2^32 + 1, 2^32 + 128,
\* 2^32 + 255, 2^32 + 65535, 2^33.
LongDecimalTokens ==
    { <<"2", "5", "5">>,
      <<"2", "5", "6">>,
      <<"1", "2", "8">>,
      <<"1", "2", "9">>,
      <<"6", "5", "5", "3", "5">>,
      <<"6", "5", "5", "3", "6">>,
      <<"9", "9", "9", "9", "9">>,
      <<"2", "1", "4", "7", "4", "8", "3", "6", "4", "7">>,
      <<"2", "1", "4", "7", "4", "8", "3", "6", "4", "8">>,
      <<"2", "1", "4", "7", "4", "8", "3", "9", "0", "3">>,
      <<"4", "2", "9", "4", "9", "6", "7", "2", "9", "5">>,
      <<"4", "2", "9", "4", "9", "6", "7", "2", "9", "6">>,
      <<"4", "2", "9", "4", "9", "6", "7", "2", "9", "7">>,
      <<"4", "2", "9", "4", "9", "6", "7", "4", "2", "4">>,
      <<"4", "2", "9", "4", "9", "6", "7", "5", "5", "1">>,
      <<"4", "2", "9", "5", "0", "3", "2", "8", "3", "1">>,
      <<"8", "5", "8", "9", "9", "3", "4", "5", "9", "2">> }

\* The sizes handed to ipv6_to_str: every size up to MaxSize, and the size
\* IPV6_STRING_SIZE of a buffer that holds every text.
MaxSize == 12

FormatSizes == 0..MaxSize \cup {IPV6_STRING_SIZE}

\* The addresses handed to ipv6_to_str: component i is either zero or
\* FormatWords[i + 1] (2001:db8:3:4:5:ffff:c0a8:1), with every subset of the
\* flags, and a mask and a port of MaskValues and PortValues whether or not
\* their flag is set.
FormatWords == <<8193, 3512, 3, 4, 5, 65535, 49320, 1>>
MaskValues == {0, 128}
PortValues == {65535}

\* The addresses handed to ipv6_compare: CompareWords are the values of
\* components[0] and components[7] (the others are zero).
CompareWords == {0, 65535}
CompareFlags == {{}, {IPV6_FLAG_HAS_PORT}, {IPV6_FLAG_HAS_MASK},
                 {IPV6_FLAG_HAS_PORT, IPV6_FLAG_HAS_MASK}, {IPV6_FLAG_IPV4_EMBED}}
ComparePorts == {0, 65535}
CompareMasks == {0, 128}

Builds == [endian : {"little", "big"}]

---------------------------------------------------------------------------
(* Characters and fixed-width arithmetic *)

DecChars == <<"0", "1", "2", "3", "4", "5", "6", "7", "8", "9">>
HexChars == DecChars \o <<"a", "b", "c", "d", "e", "f">>
HexUpper == <<"A", "B", "C", "D", "E", "F">>

SeqRange(s) == {s[i] : i \in 1..Len(s)}
IndexOf(s, c) == CHOOSE i \in 1..Len(s) : s[i] = c

IsDigit(c) == c \in SeqRange(DecChars)
IsHexLetter(c) == c \in SeqRange(HexUpper) \/ (c \in SeqRange(HexChars) /\ ~IsDigit(c))
IsWhitespace(c) == c \in {" ", "\t", "\n", "\r"}

DigitValue(c) == IndexOf(DecChars, c) - 1
HexValue(c) ==
    IF c \in SeqRange(HexUpper) THEN 9 + IndexOf(HexUpper, c)
    ELSE IndexOf(HexChars, c) - 1

Min32 == -2147483647 - 1

\* accumulate * 10 + digit on int32_t: the wrapped value and whether the
\* mathematical result left the int32_t range.
MulAdd10(acc, d) ==
    LET hi == acc \div 65536
        lo == acc % 65536
        t  == lo * 10 + d
        h  == hi * 10 + (t \div 65536)
    IN  [val |-> (((h + 32768) % 65536) - 32768) * 65536 + (t % 65536),
         ovf |-> h > 32767 \/ h < -32768]

\* (accumulate << 4) | digit on int32_t: the wrapped value and whether the
\* shift is undefined (a negative operand, or a result not representable).
Shl4Or(acc, d) ==
    LET low == acc % 268435456
    IN  [val |-> IF low >= 134217728
                 THEN ((low - 134217728) * 16 + d) + Min32
                 ELSE low * 16 + d,
         ovf |-> acc < 0 \/ acc >= 134217728]

\* a - b on uint32_t, converted to int32_t (operands below 2^31).
SubU32AsInt32(a, b) == a - b

---------------------------------------------------------------------------
(* The parser.  A machine value m bundles what the parser's functions      *)
(* change: m.state (ipv6_reader_state_t), m.out (the output address),      *)
(* m.diag (the callback's invocations) and m.ovf (an accumulator           *)
(* overflowed: undefined behaviour was executed).                          *)

ZeroComponents == [i \in 0..(IPV6_NUM_COMPONENTS - 1) |-> 0]

\* memset(out, 0, sizeof(ipv6_address_full_t))
ZeroAddress ==
    [components |-> ZeroComponents, mask |-> 0, port |-> 0, flags |-> {},
     zone |-> <<>>]

\* ipv6_reader_state_t state = { 0, }
ZeroState ==
    [current |-> STATE_NONE, input_bytes |-> 0, position |-> 0, components |-> 0,
     token_position |-> 0, token_len |-> 0, brackets |-> 0, zerorun |-> 0,
     v4_embedding |-> 0, v4_octets |-> 0, flags |-> {}]

CHANGE_STATE(m, value) == [m EXCEPT !.state.current = value]

BEGIN_TOKEN(m, offset) ==
    [m EXCEPT !.state.token_position = m.state.position + offset,
              !.state.token_len = 0]

ipv6_error(m, event) ==
    [m EXCEPT !.diag = Append(@, [event |-> event, position |-> m.state.position]),
              !.state.flags = @ \cup {"FLAG_ERROR"},
              !.state.current = STATE_ERROR]

INVALID_INPUT(m) == ipv6_error(m, "IPV6_DIAG_INVALID_INPUT")

\* The token the readers walk: input[token_position .. token_position + token_len).
Token(m, buf) ==
    SubSeq(buf, m.state.token_position + 1, m.state.token_position + m.state.token_len)

\* The loop of read_decimal_token over the token from its i-th byte on.
RECURSIVE DecimalLoop(_, _, _, _)
DecimalLoop(tok, i, acc, ovf) ==
    IF i > Len(tok) THEN [val |-> acc, bad |-> FALSE, ovf |-> ovf]
    ELSE IF IsDigit(tok[i])
         THEN LET r == MulAdd10(acc, DigitValue(tok[i]))
              IN  DecimalLoop(tok, i + 1, r.val, ovf \/ r.ovf)
         ELSE [val |-> 0, bad |-> TRUE, ovf |-> ovf]

\* The loop of read_hexidecimal_token over the token from its i-th byte on.
RECURSIVE HexLoop(_, _, _, _)
HexLoop(tok, i, acc, ovf) ==
    IF i > Len(tok) THEN [val |-> acc, bad |-> FALSE, ovf |-> ovf]
    ELSE IF IsDigit(tok[i]) \/ IsHexLetter(tok[i])
         THEN LET r == Shl4Or(acc, HexValue(tok[i]))
              IN  HexLoop(tok, i + 1, r.val, ovf \/ r.ovf)
         ELSE [val |-> 0, bad |-> TRUE, ovf |-> ovf]

\* A reader's result: the machine after it and the value it returns (the
\* wrapped value where the accumulator overflowed, which m.ovf records).
ReaderResult(m0, r) ==
    LET m == [m0 EXCEPT !.ovf = @ \/ r.ovf]
    IN  IF r.bad
        THEN [m |-> INVALID_INPUT(m), val |-> 0]
        ELSE [m |-> m, val |-> r.val]

read_decimal_token(m, buf) ==
    IF ~(m.state.token_position + m.state.token_len <= m.state.input_bytes)
    THEN [m |-> ipv6_error(m, "IPV6_DIAG_INVALID_DECIMAL_TOKEN"), val |-> 0]
    ELSE ReaderResult(m, DecimalLoop(Token(m, buf), 1, 0, FALSE))

read_hexidecimal_token(m, buf) ==
    IF ~(m.state.token_position + m.state.token_len <= m.state.input_bytes)
    THEN [m |-> ipv6_error(m, "IPV6_DIAG_INVALID_HEX_TOKEN"), val |-> 0]
    ELSE ReaderResult(m, HexLoop(Token(m, buf), 1, 0, FALSE))

\* A variant of StoreComponent without the check of the component count (the
\* store is kept inside the array).
StoreComponentUncounted(r) ==
    LET m == r.m
        component == r.val
        slot == IF m.state.components < 8 THEN m.state.components ELSE 7
    IN  IF ~(component <= 65535)
        THEN ipv6_error(m, "IPV6_DIAG_V6_COMPONENT_OUT_OF_RANGE")
        ELSE [m EXCEPT !.out.components[slot] = component % 65536,
                       !.state.components = @ + 1,
                       !.state.token_position = 0,
                       !.state.token_len = 0]

\* ipv6_parse_component after its call of read_hexidecimal_token, whose
\* result is r.
StoreComponent(r) ==
    LET m == r.m
        component == r.val
    IN  IF ~(m.state.components < 8)
        THEN ipv6_error(m, "IPV6_DIAG_V6_BAD_COMPONENT_COUNT")
        ELSE IF ~(component <= 65535)
        THEN ipv6_error(m, "IPV6_DIAG_V6_COMPONENT_OUT_OF_RANGE")
        ELSE [m EXCEPT !.out.components[m.state.components] = component % 65536,
                       !.state.components = @ + 1,
                       !.state.token_position = 0,
                       !.state.token_len = 0]

ipv6_parse_component(m, buf, bld) == StoreComponent(read_hexidecimal_token(m, buf))

\* The uint16_t word after its byte at offset b (0 or 1) is set to v.
SetByte(word, b, v, bld) ==
    IF (bld.endian = "little") = (b = 0)
    THEN (word \div 256) * 256 + v
    ELSE v * 256 + (word % 256)

\* The byte at offset b (0 or 1) of a uint16_t word.
GetByte(word, b, bld) ==
    IF (bld.endian = "little") = (b = 0) THEN word % 256 ELSE word \div 256

\* ipv4_parse_component after its call of read_decimal_token, whose result
\* is r.
StoreOctet(r, bld) ==
    LET m == r.m
        component == r.val
        slot == m.state.v4_embedding + (m.state.v4_octets \div 2)
    IN  IF ~(m.state.v4_octets < 4)
        THEN ipv6_error(m, "IPV6_DIAG_V4_BAD_COMPONENT_COUNT")
        ELSE IF ~(component <= 255)
        THEN ipv6_error(m, "IPV6_DIAG_V4_COMPONENT_OUT_OF_RANGE")
        ELSE IF ~(m.state.v4_embedding <= 6)
        THEN ipv6_error(m, "IPV6_DIAG_IPV4_REQUIRED_BITS")
        ELSE [m EXCEPT !.out.components[slot] =
                           SetByte(@, m.state.v4_octets % 2, component % 256, bld),
                       !.state.v4_octets = @ + 1,
                       !.state.token_position = 0,
                       !.state.token_len = 0]

ipv4_parse_component(m, buf, bld) == StoreOctet(read_decimal_token(m, buf), bld)

ipvx_parse_component(m, buf, bld) ==
    IF "FLAG_IPV4_EMBEDDING" \in m.state.flags
    THEN ipv4_parse_component(m, buf, bld)
    ELSE ipv6_parse_component(m, buf, bld)

\* ipvx_parse_cidr after its call of read_decimal_token, whose result is r.
StoreCidr(r) ==
    LET m == r.m
        mask == r.val
    IN  IF ~(mask > -1 /\ mask < 129)
        THEN ipv6_error(m, "IPV6_DIAG_INVALID_CIDR_MASK")
        ELSE [m EXCEPT !.out.mask = mask,
                       !.out.flags = @ \cup {IPV6_FLAG_HAS_MASK}]

ipvx_parse_cidr(m, buf, bld) == StoreCidr(read_decimal_token(m, buf))

\* ipvx_parse_port after its call of read_decimal_token, whose result is r.
StorePort(r) ==
    LET m == r.m
        port == r.val
    IN  IF ~(port > -1 /\ port <= 65535)
        THEN ipv6_error(m, "IPV6_DIAG_INVALID_PORT")
        ELSE [m EXCEPT !.out.port = port,
                       !.out.flags = @ \cup {IPV6_FLAG_HAS_PORT}]

ipvx_parse_port(m, buf, bld) == StorePort(read_decimal_token(m, buf))

IsDigitEvent(ec) == ec = EC_DIGIT \/ ec = EC_HEX_DIGIT

\* case STATE_NONE
TransitionNone(m, ec) ==
    IF IsDigitEvent(ec)
    THEN [BEGIN_TOKEN(CHANGE_STATE(m, STATE_ADDR_COMPONENT), 0)
              EXCEPT !.state.token_len = @ + 1]
    ELSE IF ec = EC_OPEN_BRACKET
    THEN IF ~(m.state.brackets = 1)
         THEN ipv6_error(m, "IPV6_DIAG_INVALID_BRACKETS")
         ELSE m
    ELSE IF ec = EC_CLOSE_BRACKET THEN CHANGE_STATE(m, STATE_POST_ADDR)
    ELSE IF ec = EC_V6_COMPONENT_SEP THEN CHANGE_STATE(m, STATE_V6_SEPARATOR)
    ELSE IF ec = EC_CIDR_MASK THEN BEGIN_TOKEN(CHANGE_STATE(m, STATE_CIDR), 1)
    ELSE IF ec = EC_WHITESPACE THEN m
    ELSE INVALID_INPUT(m)

\* case EC_V4_COMPONENT_SEP of STATE_ADDR_COMPONENT
TransitionV4Sep(m, buf, bld) ==
    IF "FLAG_IPV4_EMBEDDING" \notin m.state.flags
    THEN LET m1 == [m EXCEPT !.state.v4_embedding = m.state.components,
                             !.state.flags = @ \cup {"FLAG_IPV4_EMBEDDING"}]
         IN  IF ~(m1.state.components < 7)
             THEN ipv6_error(m1, "IPV6_DIAG_IPV4_REQUIRED_BITS")
             ELSE CHANGE_STATE(
                      ipvx_parse_component(
                          [m1 EXCEPT !.state.components = @ + 2], buf, bld),
                      STATE_NONE)
    ELSE CHANGE_STATE(ipvx_parse_component(m, buf, bld), STATE_NONE)

\* case STATE_ADDR_COMPONENT
TransitionAddrComponent(m, ec, buf, bld) ==
    IF IsDigitEvent(ec) THEN [m EXCEPT !.state.token_len = @ + 1]
    ELSE IF ec = EC_CLOSE_BRACKET
    THEN CHANGE_STATE(ipvx_parse_component(m, buf, bld), STATE_POST_ADDR)
    ELSE IF ec = EC_WHITESPACE
    THEN CHANGE_STATE(ipvx_parse_component(m, buf, bld), STATE_NONE)
    ELSE IF ec = EC_V6_COMPONENT_SEP
    THEN IF ~("FLAG_IPV4_EMBEDDING" \notin m.state.flags)
         THEN ipv6_error(m, "IPV6_DIAG_IPV4_INCORRECT_POSITION")
         ELSE CHANGE_STATE(ipvx_parse_component(m, buf, bld), STATE_V6_SEPARATOR)
    ELSE IF ec = EC_V4_COMPONENT_SEP THEN TransitionV4Sep(m, buf, bld)
    ELSE IF ec = EC_IFACE
    THEN CHANGE_STATE(ipvx_parse_component(m, buf, bld), STATE_IFACE)
    ELSE IF ec = EC_CIDR_MASK
    THEN BEGIN_TOKEN(CHANGE_STATE(ipvx_parse_component(m, buf, bld), STATE_CIDR), 1)
    ELSE INVALID_INPUT(m)

\* A variant of TransitionV6Separator whose second ':' records the zero run
\* without the check of FLAG_ZERORUN.
TransitionV6SeparatorUnchecked(m, ec) ==
    IF ec = EC_V6_COMPONENT_SEP
    THEN CHANGE_STATE([m EXCEPT !.state.zerorun = m.state.components,
                                !.state.flags = @ \cup {"FLAG_ZERORUN"}],
                      STATE_NONE)
    ELSE IF ec = EC_WHITESPACE THEN CHANGE_STATE(m, STATE_NONE)
    ELSE IF IsDigitEvent(ec)
    THEN [BEGIN_TOKEN(CHANGE_STATE(m, STATE_ADDR_COMPONENT), 0)
              EXCEPT !.state.token_len = @ + 1]
    ELSE IF ec = EC_IFACE THEN CHANGE_STATE(m, STATE_IFACE)
    ELSE IF ec = EC_CIDR_MASK
    THEN BEGIN_TOKEN(CHANGE_STATE(BEGIN_TOKEN(m, 0), STATE_CIDR), 1)
    ELSE INVALID_INPUT(m)

\* case STATE_V6_SEPARATOR
TransitionV6Separator(m, ec) ==
    IF ec = EC_V6_COMPONENT_SEP
    THEN IF ~("FLAG_ZERORUN" \notin m.state.flags)
         THEN ipv6_error(m, "IPV6_DIAG_INVALID_ABBREV")
         ELSE CHANGE_STATE([m EXCEPT !.state.zerorun = m.state.components,
                                     !.state.flags = @ \cup {"FLAG_ZERORUN"}],
                           STATE_NONE)
    ELSE IF ec = EC_WHITESPACE THEN CHANGE_STATE(m, STATE_NONE)
    ELSE IF IsDigitEvent(ec)
    THEN [BEGIN_TOKEN(CHANGE_STATE(m, STATE_ADDR_COMPONENT), 0)
              EXCEPT !.state.token_len = @ + 1]
    ELSE IF ec = EC_IFACE THEN CHANGE_STATE(m, STATE_IFACE)
    ELSE IF ec = EC_CIDR_MASK
    THEN BEGIN_TOKEN(CHANGE_STATE(BEGIN_TOKEN(m, 0), STATE_CIDR), 1)
    ELSE INVALID_INPUT(m)

\* case STATE_IFACE
TransitionIface(m, ec) ==
    IF ec = EC_WHITESPACE THEN CHANGE_STATE(m, STATE_NONE)
    ELSE IF ec = EC_CLOSE_BRACKET THEN CHANGE_STATE(m, STATE_POST_ADDR)
    ELSE m

\* A variant of TransitionCidr whose '%' moves to STATE_NONE, not to the
\* state numbered EC_IFACE.
TransitionCidrNoZone(m, ec, buf, bld) ==
    IF ec = EC_DIGIT THEN [m EXCEPT !.state.token_len = @ + 1]
    ELSE IF ec = EC_CLOSE_BRACKET
    THEN CHANGE_STATE(ipvx_parse_cidr(m, buf, bld), STATE_POST_ADDR)
    ELSE IF ec = EC_WHITESPACE \/ ec = EC_IFACE
    THEN CHANGE_STATE(ipvx_parse_cidr(m, buf, bld), STATE_NONE)
    ELSE INVALID_INPUT(m)

\* case STATE_CIDR
TransitionCidr(m, ec, buf, bld) ==
    IF ec = EC_DIGIT THEN [m EXCEPT !.state.token_len = @ + 1]
    ELSE IF ec = EC_CLOSE_BRACKET
    THEN CHANGE_STATE(ipvx_parse_cidr(m, buf, bld), STATE_POST_ADDR)
    ELSE IF ec = EC_WHITESPACE
    THEN CHANGE_STATE(ipvx_parse_cidr(m, buf, bld), STATE_NONE)
    ELSE IF ec = EC_IFACE
    THEN CHANGE_STATE(ipvx_parse_cidr(m, buf, bld), EC_IFACE)
    ELSE INVALID_INPUT(m)

\* case STATE_POST_ADDR
TransitionPostAddr(m, ec) ==
    IF ec = EC_WHITESPACE THEN m
    ELSE IF ec = EC_V6_COMPONENT_SEP THEN BEGIN_TOKEN(CHANGE_STATE(m, STATE_PORT), 1)
    ELSE INVALID_INPUT(m)

\* case STATE_PORT
TransitionPort(m, ec, buf, bld) ==
    IF ec = EC_DIGIT THEN [m EXCEPT !.state.token_len = @ + 1]
    ELSE IF ec = EC_WHITESPACE
    THEN CHANGE_STATE(ipvx_parse_port(m, buf, bld), STATE_NONE)
    ELSE INVALID_INPUT(m)

ipv6_state_transition(m, ec, buf, bld) ==
    LET cur == m.state.current
    IN  IF cur = STATE_NONE THEN TransitionNone(m, ec)
        ELSE IF cur = STATE_ADDR_COMPONENT THEN TransitionAddrComponent(m, ec, buf, bld)
        ELSE IF cur = STATE_V6_SEPARATOR THEN TransitionV6Separator(m, ec)
        ELSE IF cur = STATE_IFACE THEN TransitionIface(m, ec)
        ELSE IF cur = STATE_CIDR THEN TransitionCidr(m, ec, buf, bld)
        ELSE IF cur = STATE_POST_ADDR THEN TransitionPostAddr(m, ec)
        ELSE IF cur = STATE_PORT THEN TransitionPort(m, ec, buf, bld)
        ELSE m

\* The event class of a byte in the switch (*cp) of the scanning loop (-1:
\* the default case).
EventClass(c) ==
    IF IsDigit(c) THEN EC_DIGIT
    ELSE IF IsHexLetter(c) THEN EC_HEX_DIGIT
    ELSE IF c = ":" THEN EC_V6_COMPONENT_SEP
    ELSE IF c = "." THEN EC_V4_COMPONENT_SEP
    ELSE IF c = "/" THEN EC_CIDR_MASK
    ELSE IF c = "%" THEN EC_IFACE
    ELSE IF c = "[" THEN EC_OPEN_BRACKET
    ELSE IF c = "]" THEN EC_CLOSE_BRACKET
    ELSE IF IsWhitespace(c) THEN EC_WHITESPACE
    ELSE -1

\* The switch (*cp) of the scanning loop: the byte's event class is
\* dispatched, after state.brackets++ for a '['.
Dispatch(m, c, buf, bld) ==
    IF EventClass(c) = -1 THEN ipv6_error(m, "IPV6_DIAG_INVALID_INPUT_CHAR")
    ELSE ipv6_state_transition(
             IF c = "[" THEN [m EXCEPT !.state.brackets = @ + 1] ELSE m,
             EventClass(c), buf, bld)

\* A variant of ExpandZeroRun that leaves the components where the scanning
\* loop committed them.
ExpandZeroRunInPlace(src, zerorun, move_count, target) ==
    [i \in 0..(IPV6_NUM_COMPONENTS - 1) |-> src[i]]

\* The zero-run expansion at the end of ipv6_from_str_diag: dst after the two
\* memcpy calls from src (the second, the left side, is the later write).
ExpandZeroRun(src, zerorun, move_count, target) ==
    [i \in 0..(IPV6_NUM_COMPONENTS - 1) |->
        IF i < zerorun THEN src[i]
        ELSE IF i >= target /\ i < target + move_count THEN src[zerorun + (i - target)]
        ELSE 0]

\* The check of the IPv4 embedding after the scanning loop, on the machine
\* m1 that the end-of-input event left.
CheckEmbedding(m1) ==
    IF "FLAG_IPV4_EMBEDDING" \in m1.state.flags
    THEN IF m1.state.v4_octets # 4
         THEN ipv6_error(m1, "IPV6_DIAG_INVALID_IPV4_EMBEDDING")
         ELSE [m1 EXCEPT !.out.flags = @ \cup {IPV6_FLAG_IPV4_EMBED}]
    ELSE m1

\* The end of ipv6_from_str_diag on the machine m2 that the check of the
\* embedding left: the early return on an error, the count of the components
\* or the expansion of the zero run: [m, ret].
Expand(m2) ==
    LET move_count == m2.state.components - m2.state.zerorun
        target == IPV6_NUM_COMPONENTS - move_count
    IN  IF "FLAG_ERROR" \in m2.state.flags THEN [m |-> m2, ret |-> "false"]
        ELSE IF "FLAG_ZERORUN" \notin m2.state.flags
        THEN IF m2.state.components < IPV6_NUM_COMPONENTS
             THEN [m |-> ipv6_error(m2, "IPV6_DIAG_V6_BAD_COMPONENT_COUNT"),
                   ret |-> "false"]
             ELSE [m |-> m2, ret |-> "true"]
        ELSE IF move_count < 0 \/ move_count > IPV6_NUM_COMPONENTS
        THEN [m |-> m2, ret |-> "false"]
        ELSE IF target < 0 \/ target + move_count > IPV6_NUM_COMPONENTS
        THEN [m |-> m2, ret |-> "false"]
        ELSE [m |-> [m2 EXCEPT !.out.components =
                         ExpandZeroRun(@, m2.state.zerorun, move_count, target)],
              ret |-> "true"]

\* ipv6_from_str_diag after its scanning loop: [m, ret].
AfterLoop(m0, buf, bld) ==
    Expand(CheckEmbedding(ipv6_state_transition(m0, EC_WHITESPACE, buf, bld)))

Machine == [state |-> state, out |-> out, diag |-> diag, ovf |-> FALSE]

NoCompare == [ab |-> 0, ba |-> 0, bc |-> 0, ac |-> 0, aa |-> 0]

NoFormat == [ret |-> "none", text |-> <<>>, nul0 |-> FALSE, hi |-> -1]

FormatUnchanged == UNCHANGED <<addr, size, fmt, fmt2, cmp, third>>

\* The entry of ipv6_from_str_diag: the argument checks, the memset of out and
\* the set-up of the reader state.  The input is a C string of input_bytes
\* bytes, so that its first byte is NUL exactly when input_bytes is 0.
Enter ==
    /\ pc = "entry"
    /\ IF input_bytes = 0
       THEN LET m == INVALID_INPUT(Machine)
            IN  /\ state' = m.state /\ diag' = m.diag /\ out' = out
                /\ ret' = "false" /\ pc' = "returned"
       ELSE IF input_bytes > IPV6_STRING_SIZE
       THEN LET m == ipv6_error(Machine, "IPV6_DIAG_STRING_SIZE_EXCEEDED")
            IN  /\ state' = m.state /\ diag' = m.diag /\ out' = out
                /\ ret' = "false" /\ pc' = "returned"
       ELSE /\ out' = ZeroAddress
            /\ state' = [state EXCEPT !.current = STATE_NONE,
                                      !.input_bytes = input_bytes]
            /\ diag' = diag /\ ret' = ret /\ pc' = "scan"
    /\ UNCHANGED <<build, input, input_bytes>>
    /\ FormatUnchanged

\* The buffer as the parser can still see it with reader state st: a byte
\* behind the cursor and outside the token [token_position, token_position +
\* token_len) is never read again, and is kept as "?" (but for the byte
\* just read, which stays).
Seen(buf, st) ==
    [i \in 1..Len(buf) |->
        IF \/ i >= st.position
           \/ (i > st.token_position /\ i <= st.token_position + st.token_len)
        THEN buf[i] ELSE "?"]

\* The outcomes of a step in which m is the machine after it: the step as
\* computed, and, where an accumulator overflowed, also a trap.
Outcomes(m) == IF m.ovf THEN {"wrap", "trap"} ELSE {"wrap"}

\* The end of one iteration of the scanning loop of ipv6_from_str_diag, with
\* m the machine after the dispatch of the byte.  `drawn` says that the byte
\* was not fixed before this step: of a buffer whose bytes are drawn as they
\* are read, only what the parser can still see is kept.
StepOutcome(m, buf, drawn) ==
    \E outcome \in Outcomes(m) :
       IF outcome = "trap"
       THEN /\ pc' = "trapped" /\ input' = buf
            /\ UNCHANGED <<state, out, diag, ret>>
       ELSE /\ out' = m.out
            /\ diag' = m.diag
            /\ IF "FLAG_ERROR" \in m.state.flags
               THEN /\ state' = m.state /\ ret' = "false"
                    /\ pc' = "returned" /\ input' = buf
               ELSE /\ state' = [m.state EXCEPT !.position = @ + 1]
                    /\ ret' = ret /\ pc' = pc
                    /\ input' = IF drawn THEN Seen(buf, state') ELSE buf

\* One iteration of the scanning loop of ipv6_from_str_diag, on byte c of the
\* buffer buf.
ScanStep(c, buf, drawn) == StepOutcome(Dispatch(Machine, c, buf, build), buf, drawn)

\* The scanning loop's iteration where the buffer's bytes not fixed by the
\* initial state are drawn from `alphabet`.
ScanOver(alphabet) ==
    /\ pc = "scan"
    /\ state.position < state.input_bytes
    /\ LET drawn == ~(state.position < Len(input))
       IN  \E c \in IF drawn THEN alphabet ELSE {input[state.position + 1]} :
              ScanStep(c, IF drawn THEN Append(input, c) ELSE input, drawn)
    /\ UNCHANGED <<build, input_bytes>>
    /\ FormatUnchanged

ScanByte == ScanOver(Alphabet)

ScanQuadByte == ScanOver(QuadAlphabet)

ScanGroupByte == ScanOver(GroupAlphabet)

ScanPadByte == ScanOver(PadAlphabet)

\* The return of ipv6_from_str_diag with r = [m, ret] the result of what
\* follows the scanning loop.
ReturnOutcome(r) ==
    \E outcome \in Outcomes(r.m) :
       IF outcome = "trap"
       THEN /\ pc' = "trapped"
            /\ UNCHANGED <<state, out, diag, ret>>
       ELSE /\ state' = r.m.state
            /\ out' = r.m.out
            /\ diag' = r.m.diag
            /\ ret' = r.ret
            /\ pc' = "returned"

\* The end of input: the synthesized whitespace event, the IPv4 check, the
\* component count check or the zero-run expansion, and the return.
EndOfInput ==
    /\ pc = "scan"
    /\ state.position = state.input_bytes
    /\ ReturnOutcome(AfterLoop(Machine, input, build))
    /\ UNCHANGED <<build, input, input_bytes>>
    /\ FormatUnchanged

---------------------------------------------------------------------------
(* The formatter.  The output buffer is modelled by what ipv6_to_str writes *)
(* through wp: the sequence w of bytes written at offsets 0 .. Len(w) - 1,  *)
(* so that wp - out = Len(w), and ep is the offset size - 1.                *)

\* printf's %d, %u and %hu of a number n >= 0.
RECURSIVE DecimalText(_)
DecimalText(n) ==
    IF n < 10 THEN <<DecChars[n + 1]>>
    ELSE Append(DecimalText(n \div 10), DecChars[(n % 10) + 1])

\* printf's %x of a number n >= 0.
RECURSIVE HexText(_)
HexText(n) ==
    IF n < 16 THEN <<HexChars[n + 1]>>
    ELSE Append(HexText(n \div 16), HexChars[(n % 16) + 1])

\* "%d.%d.%d.%d" of the four bytes at components[6].
QuadText(components, bld) ==
    DecimalText(GetByte(components[6], 0, bld)) \o <<".">>
    \o DecimalText(GetByte(components[6], 1, bld)) \o <<".">>
    \o DecimalText(GetByte(components[7], 0, bld)) \o <<".">>
    \o DecimalText(GetByte(components[7], 1, bld))

\* The first loop of ipv6_to_str from component i on: r holds spans,
\* spans_position, longest_span and longest_position.
RECURSIVE SpanLoop(_, _, _)
SpanLoop(components, i, r) ==
    IF i >= IPV6_NUM_COMPONENTS THEN r
    ELSE IF components[i] # 0
    THEN LET longer == r.spans[r.spans_position] > r.longest_span
         IN  SpanLoop(components, i + 1,
                 [r EXCEPT !.longest_position = IF longer THEN r.spans_position ELSE @,
                           !.longest_span = IF longer THEN r.spans[r.spans_position] ELSE @,
                           !.spans_position = i + 1])
    ELSE SpanLoop(components, i + 1, [r EXCEPT !.spans[r.spans_position] = @ + 1])

\* A variant of LongestSpan without the check of the last span: a run of
\* zeros that ends the address is then never the longest.
LongestSpanUnchecked(components) ==
    LET r == SpanLoop(components, 0,
                 [spans |-> [i \in 0..(IPV6_NUM_COMPONENTS - 1) |-> 0],
                  spans_position |-> 0, longest_span |-> 0, longest_position |-> 0])
    IN  [position |-> r.longest_position, span |-> r.longest_span]

\* The longest span of zero components: the first loop and the check of the
\* last span after it.
LongestSpan(components) ==
    LET r == SpanLoop(components, 0,
                 [spans |-> [i \in 0..(IPV6_NUM_COMPONENTS - 1) |-> 0],
                  spans_position |-> 0, longest_span |-> 0, longest_position |-> 0])
    IN  IF r.spans_position < IPV6_NUM_COMPONENTS
           /\ r.spans[r.spans_position] > r.longest_span
        THEN [position |-> r.spans_position, span |-> r.spans[r.spans_position]]
        ELSE [position |-> r.longest_position, span |-> r.longest_span]

\* while (wp < ep && *cp) *wp++ = *cp++;
RECURSIVE CopyToken(_, _, _)
CopyToken(w, token, ep) ==
    IF Len(w) < ep /\ token # <<>>
    THEN CopyToken(Append(w, Head(token)), Tail(token), ep)
    ELSE w

\* A variant of EndOffset that keeps no byte for the NUL.
EndOffsetNoNul(sz) == sz

\* The offset ep of the end pointer: out + size - 1.
EndOffset(sz) == sz - 1

\* The emitting loop of ipv6_to_str from component i0 on, with w written so
\* far: [truncated, w].
RECURSIVE EmitLoop(_, _, _, _, _, _)
EmitLoop(in, i0, w, ep, longest, bld) ==
    IF i0 >= IPV6_NUM_COMPONENTS THEN [truncated |-> FALSE, w |-> w]
    ELSE LET embed == i0 = 6 /\ IPV6_FLAG_IPV4_EMBED \in in.flags
             token == IF embed THEN QuadText(in.components, bld)
                      ELSE HexText(in.components[i0])
             i == IF embed THEN i0 + 1 ELSE i0
         IN  IF i = longest.position /\ longest.span > 1
             THEN IF Len(w) + 2 >= ep
                  THEN [truncated |-> TRUE, w |-> w]
                  ELSE EmitLoop(in, i + (longest.span - 1) + 1,
                                IF i > 0 THEN Append(w, ":") ELSE w \o <<":", ":">>,
                                ep, longest, bld)
             ELSE LET w1 == CopyToken(w, token, ep)
                      w2 == IF i < IPV6_NUM_COMPONENTS - 1 /\ Len(w1) < ep
                            THEN Append(w1, ":") ELSE w1
                  IN  IF Len(w2) = ep
                      THEN [truncated |-> TRUE, w |-> w2]
                      ELSE EmitLoop(in, i + 1, w2, ep, longest, bld)

\* ipv6_to_str(in, out, size) with in and out not null: ret is "NULL" or "out",
\* text the C string in out at the return where out[0] .. are written (nul0
\* says that out[0] was set to NUL), hi the highest offset written (-1: none).
ipv6_to_str(in, sz, bld) ==
    IF sz < 4 THEN [ret |-> "NULL", text |-> <<>>, nul0 |-> FALSE, hi |-> -1]
    ELSE LET ep == EndOffset(sz)
             longest == LongestSpan(in.components)
             w0 == IF IPV6_FLAG_HAS_PORT \in in.flags THEN <<"[">> ELSE <<>>
             body == EmitLoop(in, 0, w0, ep, longest, bld)
             w1 == IF IPV6_FLAG_HAS_MASK \in in.flags
                   THEN CopyToken(body.w, <<"/">> \o DecimalText(in.mask), ep)
                   ELSE body.w
             w2 == IF IPV6_FLAG_HAS_PORT \in in.flags
                   THEN CopyToken(w1, <<"]", ":">> \o DecimalText(in.port), ep)
                   ELSE w1
         IN  IF body.truncated
             THEN [ret |-> "NULL", text |-> <<>>, nul0 |-> TRUE,
                   hi |-> IF Len(body.w) > 0 THEN Len(body.w) - 1 ELSE 0]
             ELSE [ret |-> "out", text |-> w2, nul0 |-> w2 = <<>>, hi |-> Len(w2)]

---------------------------------------------------------------------------
(* The comparator *)

\* ipv6_address_full_t.flags as the uint32_t it is.
FlagWord(flags) ==
    (IF IPV6_FLAG_HAS_PORT \in flags THEN IPV6_FLAG_HAS_PORT ELSE 0)
    + (IF IPV6_FLAG_HAS_MASK \in flags THEN IPV6_FLAG_HAS_MASK ELSE 0)
    + (IF IPV6_FLAG_IPV4_EMBED \in flags THEN IPV6_FLAG_IPV4_EMBED ELSE 0)

\* The loop over the components from index i on: the first difference, or 0.
RECURSIVE CompareComponents(_, _, _)
CompareComponents(a, b, i) ==
    IF i >= IPV6_NUM_COMPONENTS THEN 0
    ELSE IF a.components[i] - b.components[i] # 0
    THEN a.components[i] - b.components[i]
    ELSE CompareComponents(a, b, i + 1)

\* A variant of ipv6_compare without the comparison of the flags.
ipv6_compare_components(a, b) ==
    LET c1 == CompareComponents(a, b, 0)
        c3 == IF IPV6_FLAG_HAS_PORT \in a.flags THEN a.port - b.port ELSE 0
        c4 == IF IPV6_FLAG_HAS_MASK \in a.flags
              THEN SubU32AsInt32(a.mask, b.mask) ELSE 0
    IN  IF c1 # 0 THEN c1
        ELSE IF c3 # 0 THEN c3
        ELSE IF c4 # 0 THEN c4
        ELSE 0

ipv6_compare(a, b) ==
    LET c1 == CompareComponents(a, b, 0)
        c2 == SubU32AsInt32(FlagWord(a.flags), FlagWord(b.flags))
        c3 == IF IPV6_FLAG_HAS_PORT \in a.flags THEN a.port - b.port ELSE 0
        c4 == IF IPV6_FLAG_HAS_MASK \in a.flags
              THEN SubU32AsInt32(a.mask, b.mask) ELSE 0
    IN  IF c1 # 0 THEN c1
        ELSE IF c2 # 0 THEN c2
        ELSE IF c3 # 0 THEN c3
        ELSE IF c4 # 0 THEN c4
        ELSE 0

---------------------------------------------------------------------------
(* Calls of the formatter and of the comparator *)

\* ipv6_to_str(addr, out, size).
Format ==
    /\ pc = "format"
    /\ fmt' = ipv6_to_str(addr, size, build)
    /\ pc' = "formatted"
    /\ UNCHANGED <<build, input, input_bytes, state, out, diag, ret, addr, size,
                   fmt2, cmp, third>>

\* The caller hands the text that ipv6_to_str returned to ipv6_from_str, with
\* its strlen as input_bytes.
HandOver ==
    /\ pc = "formatted"
    /\ fmt.ret = "out"
    /\ input' = fmt.text
    /\ input_bytes' = Len(fmt.text)
    /\ pc' = "entry"
    /\ UNCHANGED <<build, state, out, diag, ret, addr, size, fmt, fmt2, cmp, third>>

\* ipv6_compare(addr, out) on the address that the parse of the text yielded.
CompareParsed ==
    /\ pc = "returned"
    /\ ret = "true"
    /\ cmp' = [cmp EXCEPT !.ab = ipv6_compare(addr, out)]
    /\ pc' = "compared"
    /\ UNCHANGED <<build, input, input_bytes, state, out, diag, ret, addr, size,
                   fmt, fmt2, third>>

\* ipv6_to_str(out, buffer, size) on the address that the parse yielded.
Reformat ==
    /\ pc = "compared"
    /\ fmt2' = ipv6_to_str(out, size, build)
    /\ pc' = "reformatted"
    /\ UNCHANGED <<build, input, input_bytes, state, out, diag, ret, addr, size,
                   fmt, cmp, third>>

\* ipv6_compare on the pairs of the three addresses a = addr, b = out and
\* c = third.
CompareThree ==
    /\ pc = "compare"
    /\ cmp' = [ab |-> ipv6_compare(addr, out), ba |-> ipv6_compare(out, addr),
               bc |-> ipv6_compare(out, third), ac |-> ipv6_compare(addr, third),
               aa |-> ipv6_compare(addr, addr)]
    /\ pc' = "done"
    /\ UNCHANGED <<build, input, input_bytes, state, out, diag, ret, addr, size,
                   fmt, fmt2, third>>

---------------------------------------------------------------------------
(* Specification of a parse whose input bytes are unconstrained *)

StaleAddress ==
    [components |-> [i \in 0..(IPV6_NUM_COMPONENTS - 1) |-> 57005],
     mask |-> 77, port |-> 4242, flags |-> AddressFlags, zone |-> <<"z">>]

PriorOut == {ZeroAddress, StaleAddress}

InitParse ==
    /\ build \in Builds
    /\ pc = "entry"
    /\ input = <<>>
    /\ input_bytes \in 0..MaxInput
    /\ state = ZeroState
    /\ out \in PriorOut
    /\ diag = <<>>
    /\ ret = "none"
    /\ addr = ZeroAddress /\ size = 0 /\ third = ZeroAddress
    /\ fmt = NoFormat /\ fmt2 = NoFormat /\ cmp = NoCompare

NextParse == Enter \/ ScanByte \/ EndOfInput

SpecParse == InitParse /\ [][NextParse]_vars

---------------------------------------------------------------------------
(* Specification of a parse of an unconstrained input over the bytes of a  *)
(* dotted quad and of the zero-run abbreviation                            *)

InitQuad ==
    /\ build \in Builds
    /\ pc = "entry"
    /\ input = <<>>
    /\ input_bytes \in 0..MaxQuadInput
    /\ state = ZeroState
    /\ out \in PriorOut
    /\ diag = <<>>
    /\ ret = "none"
    /\ addr = ZeroAddress /\ size = 0 /\ third = ZeroAddress
    /\ fmt = NoFormat /\ fmt2 = NoFormat /\ cmp = NoCompare

NextQuad == Enter \/ ScanQuadByte \/ EndOfInput

SpecQuad == InitQuad /\ [][NextQuad]_vars

---------------------------------------------------------------------------
(* Specification of the parse of one numeric token in each of its four     *)
(* places: a hexadecimal group, an IPv4 octet, a CIDR mask, a port         *)

StringsOver(alphabet, n) == UNION {[1..k -> alphabet] : k \in 1..n}

HexTokens == StringsOver(TokenHexDigits, MaxShortToken) \cup LongHexTokens
DecimalTokens == StringsOver(TokenDigits, MaxShortToken) \cup LongDecimalTokens

GroupPrefix == <<":", ":">>
OctetPrefix == <<":", ":", "1", ".", "1", ".", "1", ".">>
MaskPrefix == <<":", ":", "/">>
PortPrefix == <<"[", ":", ":", "]", ":">>

TokenInputs ==
    {GroupPrefix \o t : t \in HexTokens}
    \cup {p \o t : p \in {OctetPrefix, MaskPrefix, PortPrefix}, t \in DecimalTokens}

InitToken ==
    /\ build \in Builds
    /\ pc = "entry"
    /\ input \in TokenInputs
    /\ input_bytes = Len(input)
    /\ state = ZeroState
    /\ out \in PriorOut
    /\ diag = <<>>
    /\ ret = "none"
    /\ addr = ZeroAddress /\ size = 0 /\ third = ZeroAddress
    /\ fmt = NoFormat /\ fmt2 = NoFormat /\ cmp = NoCompare

NextToken == Enter \/ ScanByte \/ EndOfInput

SpecToken == InitToken /\ [][NextToken]_vars

---------------------------------------------------------------------------
(* Specification of a parse of an unconstrained input over the bytes of    *)
(* hexadecimal groups and of a dotted quad, long enough for nine groups    *)

RECURSIVE Repeat(_, _)
Repeat(s, n) == IF n = 0 THEN <<>> ELSE s \o Repeat(s, n - 1)

\* The inputs 1:1:1:1:1:1:1.1.1.1 and 1:1:1:1:1:1:1:1.1.1.1, which are longer
\* than MaxGroupInput: six and seven groups before a dotted quad.
QuadTail == <<"1", ".", "1", ".", "1", ".", "1">>
TailedGroupInputs == {Repeat(<<"1", ":">>, n) \o QuadTail : n \in 6..7}

InitGroups ==
    /\ build \in Builds
    /\ pc = "entry"
    /\ \/ input = <<>> /\ input_bytes \in 0..MaxGroupInput
       \/ input \in TailedGroupInputs /\ input_bytes = Len(input)
    /\ state = ZeroState
    /\ out \in PriorOut
    /\ diag = <<>>
    /\ ret = "none"
    /\ addr = ZeroAddress /\ size = 0 /\ third = ZeroAddress
    /\ fmt = NoFormat /\ fmt2 = NoFormat /\ cmp = NoCompare

NextGroups == Enter \/ ScanGroupByte \/ EndOfInput

SpecGroups == InitGroups /\ [][NextGroups]_vars

---------------------------------------------------------------------------
(* Specification of a parse of an unconstrained input of blanks and ':' of *)
(* every length up to one more than IPV6_STRING_SIZE                       *)

InitLength ==
    /\ build \in Builds
    /\ pc = "entry"
    /\ input = <<>>
    /\ input_bytes \in 0..MaxLongInput
    /\ state = ZeroState
    /\ out \in PriorOut
    /\ diag = <<>>
    /\ ret = "none"
    /\ addr = ZeroAddress /\ size = 0 /\ third = ZeroAddress
    /\ fmt = NoFormat /\ fmt2 = NoFormat /\ cmp = NoCompare

NextLength == Enter \/ ScanPadByte \/ EndOfInput

SpecLength == InitLength /\ [][NextLength]_vars

---------------------------------------------------------------------------
(* Specification of the parse of an address with a zone, bare and in       *)
(* brackets with a port                                                    *)

Zones == {<<>>} \cup StringsOver(ZoneBytes, MaxZone)

ZonePrefix == <<":", ":", "1", "%">>
BracketZonePrefix == <<"[", ":", ":", "1", "%">>
ZoneSuffix == <<"]", ":", "1">>

ZoneInputs ==
    {ZonePrefix \o z : z \in Zones}
    \cup {BracketZonePrefix \o z \o ZoneSuffix : z \in Zones}
    \cup {<<":", ":", "1">>}

\* The inputs of SpecMask: ::1/<mask>%<zone> and [::1/<mask>%<zone>]:80, and
\* [fe80::1/64%1]:80.
MaskTokens ==
    StringsOver(TokenDigits, MaxMaskToken)
    \cup {<<"6", "4">>, <<"1", "2", "8">>, <<"1", "2", "9">>}

MaskedPrefix == <<":", ":", "1", "/">>
BracketMaskedPrefix == <<"[", ":", ":", "1", "/">>
PortSuffix == <<"]", ":", "8", "0">>

MaskedInputs ==
    {MaskedPrefix \o t \o <<"%">> \o z : t \in MaskTokens, z \in MaskZones}
    \cup {BracketMaskedPrefix \o t \o <<"%">> \o z \o PortSuffix :
              t \in MaskTokens, z \in MaskZones}
    \cup {<<"[", "f", "e", "8", "0", ":", ":", "1", "/", "6", "4", "%", "1",
            "]", ":", "8", "0">>}

InitMask ==
    /\ build \in Builds
    /\ pc = "entry"
    /\ input \in MaskedInputs
    /\ input_bytes = Len(input)
    /\ state = ZeroState
    /\ out \in PriorOut
    /\ diag = <<>>
    /\ ret = "none"
    /\ addr = ZeroAddress /\ size = 0 /\ third = ZeroAddress
    /\ fmt = NoFormat /\ fmt2 = NoFormat /\ cmp = NoCompare

NextMask == Enter \/ ScanByte \/ EndOfInput

SpecMask == InitMask /\ [][NextMask]_vars

\* The inputs of SpecBlank, with 1 2 3 4 5 6 7 8 and ::1.1. 1.1.
BlankInputs ==
    StringsOver(BlankAlphabet, MaxBlankInput)
    \cup {<<"1", " ", "2", " ", "3", " ", "4", " ", "5", " ", "6", " ", "7",
            " ", "8">>,
          <<":", ":", "1", ".", "1", ".", " ", "1", ".", "1">>}

InitBlank ==
    /\ build \in Builds
    /\ pc = "entry"
    /\ input \in BlankInputs
    /\ input_bytes = Len(input)
    /\ state = ZeroState
    /\ out \in PriorOut
    /\ diag = <<>>
    /\ ret = "none"
    /\ addr = ZeroAddress /\ size = 0 /\ third = ZeroAddress
    /\ fmt = NoFormat /\ fmt2 = NoFormat /\ cmp = NoCompare

NextBlank == Enter \/ ScanByte \/ EndOfInput

SpecBlank == InitBlank /\ [][NextBlank]_vars

InitZone ==
    /\ build \in Builds
    /\ pc = "entry"
    /\ input \in ZoneInputs
    /\ input_bytes = Len(input)
    /\ state = ZeroState
    /\ out \in PriorOut
    /\ diag = <<>>
    /\ ret = "none"
    /\ addr = ZeroAddress /\ size = 0 /\ third = ZeroAddress
    /\ fmt = NoFormat /\ fmt2 = NoFormat /\ cmp = NoCompare

NextZone == Enter \/ ScanByte \/ EndOfInput

SpecZone == InitZone /\ [][NextZone]_vars

---------------------------------------------------------------------------
(* Specification of one call of the formatter *)

FormatComponents ==
    {[i \in 0..(IPV6_NUM_COMPONENTS - 1) |-> IF i \in zeros THEN 0 ELSE FormatWords[i + 1]] :
        zeros \in SUBSET (0..(IPV6_NUM_COMPONENTS - 1))}

FormatAddresses ==
    [components : FormatComponents, mask : MaskValues, port : PortValues,
     flags : SUBSET AddressFlags, zone : {<<>>}]

InitFormat ==
    /\ build \in Builds
    /\ pc = "format"
    /\ input = <<>>
    /\ input_bytes = 0
    /\ state = ZeroState
    /\ out = StaleAddress
    /\ diag = <<>>
    /\ ret = "none"
    /\ addr \in FormatAddresses
    /\ size \in FormatSizes
    /\ third = ZeroAddress
    /\ fmt = NoFormat /\ fmt2 = NoFormat /\ cmp = NoCompare

NextFormat == Format

SpecFormat == InitFormat /\ [][NextFormat]_vars

---------------------------------------------------------------------------
(* Specification of a round trip: format, parse the text, compare the      *)
(* parsed address with the formatted one, and format the parsed address    *)

NextRoundTrip ==
    Format \/ HandOver \/ Enter \/ ScanByte \/ EndOfInput \/ CompareParsed \/ Reformat

SpecRoundTrip == InitFormat /\ [][NextRoundTrip]_vars

---------------------------------------------------------------------------
(* Specification of the comparisons among three addresses *)

CompareComponentsSet ==
    {[i \in 0..(IPV6_NUM_COMPONENTS - 1) |->
         IF i = 0 THEN first ELSE IF i = IPV6_NUM_COMPONENTS - 1 THEN last ELSE 0] :
        first \in CompareWords, last \in CompareWords}

CompareAddresses ==
    [components : CompareComponentsSet, mask : CompareMasks, port : ComparePorts,
     flags : CompareFlags, zone : {<<>>}]

InitCompare ==
    /\ build \in Builds
    /\ pc = "compare"
    /\ input = <<>>
    /\ input_bytes = 0
    /\ state = ZeroState
    /\ diag = <<>>
    /\ ret = "none"
    /\ addr \in CompareAddresses
    /\ out \in CompareAddresses
    /\ third \in CompareAddresses
    /\ size = 0
    /\ fmt = NoFormat /\ fmt2 = NoFormat /\ cmp = NoCompare

NextCompare == CompareThree

SpecCompare == InitCompare /\ [][NextCompare]_vars

---------------------------------------------------------------------------
(* Claims about the parser *)

Returned == pc = "returned"
Succeeded == pc = "returned" /\ ret = "true"
Failed == pc = "returned" /\ ret = "false"

\* C1: whenever ipv6_from_str_diag has returned false, the diagnostic
\* callback has been invoked exactly once during the call.
C1_OneDiagPerFailure == Failed => Len(diag) = 1

\* The index, in the final layout, of the slot at which the IPv4 embedding
\* began: slots at or after the zero run move to the end of the address.
FinalEmbedSlot(st) ==
    IF "FLAG_ZERORUN" \in st.flags /\ st.v4_embedding >= st.zerorun
    THEN st.v4_embedding + (IPV6_NUM_COMPONENTS - st.components)
    ELSE st.v4_embedding

\* C2: whenever a parse has returned true with the ipv4_embed flag set, the
\* four octets were committed to the storage that is components[6] and
\* components[7] of the final address.
C2_EmbedIsLast32Bits ==
    (Succeeded /\ IPV6_FLAG_IPV4_EMBED \in out.flags) => FinalEmbedSlot(state) = 6


HasPrefix(s, p) == Len(s) >= Len(p) /\ SubSeq(s, 1, Len(p)) = p
Rest(s, p) == SubSeq(s, Len(p) + 1, Len(s))

\* The place of the token of an input of SpecToken, and the token.
TokenPlace ==
    IF HasPrefix(input, PortPrefix) THEN "port"
    ELSE IF HasPrefix(input, MaskPrefix) THEN "mask"
    ELSE IF HasPrefix(input, OctetPrefix) THEN "octet"
    ELSE "group"

TheToken ==
    Rest(input, CASE TokenPlace = "port" -> PortPrefix
                  [] TokenPlace = "mask" -> MaskPrefix
                  [] TokenPlace = "octet" -> OctetPrefix
                  [] OTHER -> GroupPrefix)

RECURSIVE StripZeros(_)
StripZeros(t) == IF Len(t) > 1 /\ t[1] = "0" THEN StripZeros(Tail(t)) ELSE t

\* The number a short token denotes in the given base.
RECURSIVE NumberOf(_, _)
NumberOf(t, base) ==
    IF t = <<>> THEN 0
    ELSE NumberOf(SubSeq(t, 1, Len(t) - 1), base) * base + HexValue(t[Len(t)])

\* The token denotes a number above max (max < 10^5 for a decimal token,
\* max = 0xFFFF for a hexadecimal one).
DecimalExceeds(t, max) ==
    LET u == StripZeros(t) IN Len(u) > 5 \/ NumberOf(u, 10) > max
HexExceeds(t) == Len(StripZeros(t)) > 4

Reported(event) == \E i \in 1..Len(diag) : diag[i].event = event

Ended == pc \in {"returned", "trapped"}

\* C6: a hexadecimal group whose token denotes more than 0xFFFF makes the
\* parse fail with V6_COMPONENT_OUT_OF_RANGE, and after a successful parse
\* the stored component is the number the token denotes.
C6_HexGroupRange ==
    (Ended /\ TokenPlace = "group") =>
        /\ HexExceeds(TheToken) =>
              Failed /\ Reported("IPV6_DIAG_V6_COMPONENT_OUT_OF_RANGE")
        /\ Succeeded => out.components[7] = NumberOf(StripZeros(TheToken), 16)

FieldMax(place) == CASE place = "octet" -> 255 [] place = "mask" -> 128 [] OTHER -> 65535
FieldEvent(place) ==
    CASE place = "octet" -> "IPV6_DIAG_V4_COMPONENT_OUT_OF_RANGE"
      [] place = "mask" -> "IPV6_DIAG_INVALID_CIDR_MASK"
      [] OTHER -> "IPV6_DIAG_INVALID_PORT"
StoredField(place) ==
    CASE place = "octet" -> GetByte(out.components[7], 1, build)
      [] place = "mask" -> out.mask
      [] OTHER -> out.port

\* C7: a decimal token that denotes more than its field's maximum (255 for an
\* octet, 128 for a mask, 65535 for a port) makes the parse fail with the
\* field's event, and after a successful parse the stored field is the
\* number the token denotes.
C7_DecimalFieldRange ==
    (Ended /\ TokenPlace # "group") =>
        /\ DecimalExceeds(TheToken, FieldMax(TokenPlace)) =>
              Failed /\ Reported(FieldEvent(TokenPlace))
        /\ Succeeded => StoredField(TokenPlace) = NumberOf(StripZeros(TheToken), 10)

---------------------------------------------------------------------------
(* Claims about the state machine *)

\* C11: whenever a parse has returned true with has_port set, the input had
\* exactly one '[' (state.brackets counts them).
C11_PortNeedsBrackets ==
    (Succeeded /\ IPV6_FLAG_HAS_PORT \in out.flags) => state.brackets = 1

\* A step of the scanning loop, and the byte it reads.
Scanning == pc = "scan" /\ state.position < state.input_bytes
ByteRead == input'[state.position + 1]

\* The step reads a ':' in state V6_SEPARATOR with the zero run recorded.
SecondAbbreviation ==
    /\ Scanning
    /\ state.current = STATE_V6_SEPARATOR
    /\ "FLAG_ZERORUN" \in state.flags
    /\ ByteRead = ":"

\* C12: every step that reads a ':' in state V6_SEPARATOR with the zero run
\* recorded ends the parse with false and the event INVALID_ABBREV, and a
\* recorded zero-run index is never changed by a later step.
C12_OneAbbreviation ==
    [][/\ SecondAbbreviation =>
             /\ pc' = "returned" /\ ret' = "false"
             /\ diag' = Append(diag, [event |-> "IPV6_DIAG_INVALID_ABBREV",
                                      position |-> state.position])
       /\ "FLAG_ZERORUN" \in state.flags =>
             "FLAG_ZERORUN" \in state'.flags /\ state'.zerorun = state.zerorun]_vars

\* C12's case: a parse that a second "::" ended.
C12_Witness == Failed /\ Reported("IPV6_DIAG_INVALID_ABBREV")

NoAbbreviation == "FLAG_ZERORUN" \notin state.flags

BadCount(position) ==
    [event |-> "IPV6_DIAG_V6_BAD_COMPONENT_COUNT", position |-> position]

\* The step commits a 16-bit group, a token of at most four digits, on a ':'
\* or at the end of the input when eight slots are committed already.
NinthGroup ==
    /\ pc = "scan"
    /\ state.current = STATE_ADDR_COMPONENT
    /\ "FLAG_IPV4_EMBEDDING" \notin state.flags
    /\ state.components = 8
    /\ state.token_len <= 4
    /\ (state.position = state.input_bytes \/ ByteRead = ":")

\* The step is the end of an input without "::" and without an error so far,
\* with fewer than eight slots committed.
TooFewAtEnd ==
    /\ pc = "scan"
    /\ state.position = state.input_bytes
    /\ "FLAG_ZERORUN" \notin state'.flags
    /\ state'.components < 8
    /\ diag = <<>>

\* The end of the input raised no error of its own: the last token was
\* committed, and an IPv4 tail has its four octets.
CleanEnd ==
    /\ state'.token_len = 0
    /\ "FLAG_IPV4_EMBEDDING" \in state'.flags => state'.v4_octets = 4

\* C13: without a "::" a parse returns true only with exactly 8 slots
\* committed; the slot counter never exceeds 8; a step that commits a ninth
\* 16-bit group ends the parse with false and V6_BAD_COMPONENT_COUNT; and an
\* input without "::" that ends with fewer than 8 slots does not return true,
\* and returns false with V6_BAD_COMPONENT_COUNT as its one event unless the
\* end of the input raised an error of its own.
C13_ComponentCount ==
    [][/\ state'.components <= 8
       /\ (pc' = "returned" /\ ret' = "true" /\ "FLAG_ZERORUN" \notin state'.flags)
             => state'.components = 8
       /\ NinthGroup =>
             /\ pc' = "returned" /\ ret' = "false"
             /\ diag' = <<BadCount(state.position)>>
       /\ TooFewAtEnd =>
             /\ pc' = "returned" => ret' = "false"
             /\ CleanEnd =>
                   /\ pc' = "returned" /\ ret' = "false"
                   /\ diag' = <<BadCount(state.position)>>]_vars

\* C13's case: a parse without "::" that the commit of a ninth group ended.
C13_Witness ==
    /\ Failed /\ NoAbbreviation
    /\ state.components = 8
    /\ "FLAG_IPV4_EMBEDDING" \notin state.flags
    /\ state.position >= 16
    /\ Reported("IPV6_DIAG_V6_BAD_COMPONENT_COUNT")

\* C14: whenever the parse of ::1.1.1.d, with d a token of at most three
\* digits, has returned true, components[6] is 1 * 256 + 1 and components[7]
\* is 1 * 256 + d, whatever the byte order of the host.
C14_EmbeddedWireOrder ==
    (Succeeded /\ TokenPlace = "octet" /\ Len(TheToken) <= 3) =>
        /\ IPV6_FLAG_IPV4_EMBED \in out.flags
        /\ out.components[6] = (1 * 256) + 1
        /\ out.components[7] = (1 * 256) + NumberOf(TheToken, 10)

\* C15: whenever the parse has returned, true or false, every field of out
\* that the call did not commit is zero: all of out when the call ended
\* before its first byte, the components when no slot was committed, the
\* mask without has_mask and the port without has_port.
C15_OutputZeroedFirst ==
    Returned =>
        /\ state.position = 0 => out = ZeroAddress
        /\ state.components = 0 => out.components = ZeroComponents
        /\ IPV6_FLAG_HAS_MASK \notin out.flags => out.mask = 0
        /\ IPV6_FLAG_HAS_PORT \notin out.flags => out.port = 0

\* The length of the longest representable string,
\* [1234:1234:1234:1234:1234:1234:1234:1234/128%longinterface]:65535.
LongestString == IPV6_STRING_SIZE - 1

\* C16: whenever the parse of an input of more than 65 bytes has ended, it
\* has returned false with STRING_SIZE_EXCEEDED as its one event, and no
\* byte was dispatched to the state machine.
C16_LongInputRejected ==
    (Ended /\ input_bytes > LongestString) =>
        /\ Failed
        /\ diag = <<[event |-> "IPV6_DIAG_STRING_SIZE_EXCEEDED", position |-> 0]>>
        /\ state.position = 0

\* The bytes of s from index i up to the first ']' or blank: the bytes that
\* the state IFACE consumes when s[i - 1] is the '%'.
RECURSIVE ZoneFrom(_, _)
ZoneFrom(s, i) ==
    IF i > Len(s) \/ s[i] = "]" \/ IsWhitespace(s[i]) THEN <<>>
    ELSE <<s[i]>> \o ZoneFrom(s, i + 1)

\* The zone identifier of the input s: empty without a '%'.
ZoneOf(s) ==
    IF \E i \in 1..Len(s) : s[i] = "%"
    THEN ZoneFrom(s, 1 + CHOOSE i \in 1..Len(s) :
                          s[i] = "%" /\ \A j \in 1..(i - 1) : s[j] # "%")
    ELSE <<>>

\* C17: whenever a parse has returned true, the zone field of out holds the
\* bytes of the input that follow its '%' up to the ']' or the end, and is
\* empty for an input without '%'.
C17_ZoneStored == Succeeded => out.zone = ZoneOf(input)

\* The step reads in state IFACE a byte that is neither whitespace nor ']'.
ZoneByte ==
    /\ Scanning
    /\ state.current = STATE_IFACE
    /\ ~IsWhitespace(ByteRead)
    /\ ByteRead # "]"

\* C20: every step that reads in state IFACE a byte other than whitespace
\* and ']' raises no error, goes on scanning and leaves the state at IFACE.
C20_ZoneBytesAccepted ==
    [][ZoneByte =>
          /\ pc' = "scan"
          /\ diag' = diag
          /\ "FLAG_ERROR" \notin state'.flags
          /\ state'.current = STATE_IFACE]_vars

\* The components as committed when the input has ended, before the
\* expansion of the zero run.
Committed ==
    CheckEmbedding(ipv6_state_transition(Machine, EC_WHITESPACE, input, build)).out.components

\* The components `final` are the expansion of the components c, of which n
\* are committed, with the zero run at index z.
IsExpansion(final, c, z, n) ==
    /\ \A i \in 0..(z - 1) : final[i] = c[i]
    /\ \A i \in z..(8 - (n - z) - 1) : final[i] = 0
    /\ \A k \in 0..(n - z - 1) : final[8 - (n - z) + k] = c[z + k]

\* The step is the end of an input with "::", and returns true.
ExpandedReturn ==
    /\ pc = "scan" /\ state.position = state.input_bytes
    /\ pc' = "returned" /\ ret' = "true"
    /\ "FLAG_ZERORUN" \in state'.flags

C19_ErrorLatch ==
    /\ "FLAG_ERROR" \in state.flags => state.current = STATE_ERROR
    /\ (Failed /\ diag # <<>>) => state.current = STATE_ERROR
    /\ Succeeded => state.current \in {STATE_NONE, STATE_POST_ADDR}

\* The token that the reader state delimits in the input.
PendingToken ==
    SubSeq(input, state.token_position + 1, state.token_position + state.token_len)

\* The step reads a '%' in state CIDR.
MaskThenZone == Scanning /\ state.current = STATE_CIDR /\ ByteRead = "%"

\* C21: every step that reads a '%' in state CIDR with a mask token of at
\* most three digits commits the mask, with has_mask, and moves to state
\* IFACE when the mask is at most 128, and ends the parse with false and
\* INVALID_CIDR_MASK when it is not; from state IFACE a ']' leads to
\* POST_ADDR, and the end of the input to a return with the state at NONE.
C21_MaskThenZone ==
    [][/\ (MaskThenZone /\ state.token_len <= 3) =>
             IF NumberOf(PendingToken, 10) <= 128
             THEN /\ pc' = "scan" /\ diag' = diag
                  /\ state'.current = STATE_IFACE
                  /\ out'.mask = NumberOf(PendingToken, 10)
                  /\ IPV6_FLAG_HAS_MASK \in out'.flags
             ELSE /\ pc' = "returned" /\ ret' = "false"
                  /\ diag' = <<[event |-> "IPV6_DIAG_INVALID_CIDR_MASK",
                                position |-> state.position]>>
       /\ (Scanning /\ state.current = STATE_IFACE /\ ByteRead = "]") =>
             pc' = "scan" /\ state'.current = STATE_POST_ADDR
       /\ (pc = "scan" /\ state.position = state.input_bytes
             /\ state.current = STATE_IFACE /\ "FLAG_ZERORUN" \in state.flags) =>
             pc' = "returned" /\ ret' = "true" /\ state'.current = STATE_NONE]_vars

\* C21's case: [fe80::1/64%1]:80 has returned true with mask 64 and port 80.
C21_Witness ==
    /\ Succeeded
    /\ \E i \in 1..Len(input) : input[i] = "%" /\ input[i - 1] = "4"
    /\ input[2] = "f"
    /\ out.mask = 64 /\ IPV6_FLAG_HAS_MASK \in out.flags
    /\ out.port = 80 /\ IPV6_FLAG_HAS_PORT \in out.flags
    /\ state.current = STATE_NONE

\* C22: whenever a parse has returned true, the input had at most one '['
\* (state.brackets counts them, in whatever state they are read).
C22_AtMostOneBracket == Succeeded => state.brackets \in {0, 1}

\* The whole input has been read and its dotted quad, of four octets, was
\* committed from a slot that is not index 6 of the final layout.
MisplacedQuad ==
    /\ Returned /\ state.position = state.input_bytes
    /\ "FLAG_IPV4_EMBEDDING" \in state.flags
    /\ state.v4_octets = 4
    /\ FinalEmbedSlot(state) # 6

\* C23: whenever the parse of an input whose dotted quad does not begin at
\* the last 32 bits of the address has returned, it has returned false and
\* reported IPV4_INCORRECT_POSITION or IPV4_REQUIRED_BITS.
C23_MisplacedQuadRejected ==
    MisplacedQuad =>
        /\ Failed
        /\ \/ Reported("IPV6_DIAG_IPV4_INCORRECT_POSITION")
           \/ Reported("IPV6_DIAG_IPV4_REQUIRED_BITS")

IsTokenByte(c) == IsDigit(c) \/ IsHexLetter(c)

\* The input s has whitespace between two groups, or between two octets:
\* the bytes s[j] .. s[k - 1] are whitespace, s[k] begins a token, and before
\* s[j] comes a token, or a token and its '.'.
BlankBetweenTokens(s) ==
    \E j \in 2..Len(s) : \E k \in (j + 1)..Len(s) :
        /\ \A x \in j..(k - 1) : IsWhitespace(s[x])
        /\ IsTokenByte(s[k])
        /\ \/ IsTokenByte(s[j - 1])
           \/ j > 2 /\ s[j - 1] = "." /\ IsTokenByte(s[j - 2])

\* C25: whenever a parse has returned true, the input has no whitespace
\* between two groups or between two octets.
C25_NoBlankInside == Succeeded => ~BlankBetweenTokens(input)

\* The last byte of the input, once the parse has read all of it.
LastByte == input[state.input_bytes]

\* C26: whenever a parse has returned true for an input that ends with the
\* '/' of an empty mask token, out has no has_mask, and whenever it has
\* returned true for an input that ends with the ':' of an empty port token,
\* out has no has_port.
C26_FieldNeedsDigits ==
    (Succeeded /\ state.position = state.input_bytes) =>
        /\ LastByte = "/" => IPV6_FLAG_HAS_MASK \notin out.flags
        /\ LastByte = ":" => IPV6_FLAG_HAS_PORT \notin out.flags

---------------------------------------------------------------------------
(* Claims about the formatter *)

Formatted == pc = "formatted"

\* The words first .. last of the address as colon-separated hexadecimal.
RECURSIVE Groups(_, _, _)
Groups(a, first, last) ==
    IF first > last THEN <<>>
    ELSE IF first = last THEN HexText(a.components[first])
    ELSE HexText(a.components[first]) \o <<":">> \o Groups(a, first + 1, last)

\* The words first .. 7 of the address, the last two as a dotted quad where
\* the address has the ipv4_embed flag and both are among them.
TailGroups(a, first) ==
    IF IPV6_FLAG_IPV4_EMBED \in a.flags /\ first <= 6
    THEN (IF first < 6 THEN Groups(a, first, 5) \o <<":">> ELSE <<>>)
         \o QuadText(a.components, build)
    ELSE Groups(a, first, IPV6_NUM_COMPONENTS - 1)

\* Words p .. p + n - 1 are a run of n zero words.
IsZeroRun(a, p, n) ==
    /\ n >= 1 /\ p >= 0 /\ p + n <= IPV6_NUM_COMPONENTS
    /\ \A i \in p..(p + n - 1) : a.components[i] = 0

\* The length of the longest run of zero words (0: no word is zero), and the
\* index of the earliest run of that length.
LongestRun(a) ==
    LET lengths == {n \in 1..IPV6_NUM_COMPONENTS :
                       \E p \in 0..(IPV6_NUM_COMPONENTS - 1) : IsZeroRun(a, p, n)}
    IN  IF lengths = {} THEN 0 ELSE CHOOSE n \in lengths : \A k \in lengths : k <= n
EarliestLongestRun(a) ==
    CHOOSE p \in 0..(IPV6_NUM_COMPONENTS - 1) :
        /\ IsZeroRun(a, p, LongestRun(a))
        /\ \A q \in 0..(p - 1) : ~IsZeroRun(a, q, LongestRun(a))

\* The body with the earliest longest run replaced by "::".
AbbreviatedBody(a) ==
    LET p == EarliestLongestRun(a)
    IN  Groups(a, 0, p - 1) \o <<":", ":">> \o TailGroups(a, p + LongestRun(a))

\* The body that the claim describes: the earliest of the longest runs of two
\* or more zero words is replaced by "::"; otherwise every word is written.
ClaimedBody(a) ==
    IF LongestRun(a) >= 2 THEN AbbreviatedBody(a) ELSE TailGroups(a, 0)

\* The run that would be abbreviated is the two words of the dotted quad.
RunIsTheQuad(a) ==
    IPV6_FLAG_IPV4_EMBED \in a.flags /\ LongestRun(a) = 2 /\ EarliestLongestRun(a) = 6

\* The body as amended: as claimed, but with the run left alone where it is
\* the two words that the dotted quad shows.
AmendedBody(a) ==
    IF LongestRun(a) >= 2 /\ ~RunIsTheQuad(a) THEN AbbreviatedBody(a) ELSE TailGroups(a, 0)

Bracket(a) == IF IPV6_FLAG_HAS_PORT \in a.flags THEN <<"[">> ELSE <<>>
Suffix(a) ==
    (IF IPV6_FLAG_HAS_MASK \in a.flags THEN <<"/">> \o DecimalText(a.mask) ELSE <<>>)
    \o (IF IPV6_FLAG_HAS_PORT \in a.flags
        THEN <<"]", ":">> \o DecimalText(a.port) ELSE <<>>)

\* The text is the bracket, the given body and an initial part of the suffix.
HasBody(text, a, body) ==
    /\ HasPrefix(text, Bracket(a) \o body)
    /\ HasPrefix(Suffix(a), Rest(text, Bracket(a) \o body))

CanonicalText(a) == Bracket(a) \o AmendedBody(a) \o Suffix(a)

\* C8: whenever the canonical text of the address and its NUL do not fit in
\* size bytes, for a size of at least 4 (below it nothing can be asked to be
\* written), ipv6_to_str has returned NULL with out[0] set to NUL, and a
\* text that it returns is the whole canonical text.
C8_TruncationReported ==
    (Formatted /\ size >= 4) =>
        /\ Len(CanonicalText(addr)) + 1 > size => fmt.ret = "NULL" /\ fmt.nul0
        /\ fmt.ret = "out" => fmt.text = CanonicalText(addr)

\* C9: every byte ipv6_to_str has written is at an offset of 0 .. size - 1,
\* and with a size below 4 it has written nothing and returned NULL.
C9_WritesInBounds ==
    Formatted =>
        /\ fmt.hi <= size - 1
        /\ size < 4 => fmt.ret = "NULL" /\ fmt.hi = -1

\* C9's case: a call with a size of at least 4 that wrote the last byte of
\* the buffer.
C9_Witness == Formatted /\ size >= 4 /\ fmt.hi = size - 1

\* C24: whenever ipv6_to_str has been called with a size of at least 4 in
\* which the canonical text of the address and its NUL fit, it has returned
\* out with the whole text.
C24_FitsThenFormats ==
    (Formatted /\ size >= 4 /\ size >= Len(CanonicalText(addr)) + 1) =>
        fmt.ret = "out" /\ fmt.text = CanonicalText(addr)

---------------------------------------------------------------------------
(* Claims about the round trip *)

\* C3: whenever ipv6_to_str has returned a text for an address, the parse of
\* that text returns true, and ipv6_compare of the address with the parsed
\* one is 0.
C3_RoundTrip ==
    /\ Ended => ret = "true"
    /\ pc \in {"compared", "reformatted"} => cmp.ab = 0

\* C5: whenever ipv6_to_str has returned a text for an address, the parse of
\* that text returns true, and ipv6_to_str on the parsed address returns the
\* same text.
C5_Idempotent ==
    /\ Ended => ret = "true"
    /\ pc = "reformatted" => fmt2.ret = "out" /\ fmt2.text = fmt.text

---------------------------------------------------------------------------
(* Claims about the comparator *)

Sign(n) == IF n < 0 THEN -1 ELSE IF n > 0 THEN 1 ELSE 0

\* The keys of an address in the order of the comparison: the eight
\* components, the flags, the port if has_port is set, the mask if has_mask
\* is set.
Keys(a) ==
    [k \in 1..(IPV6_NUM_COMPONENTS + 3) |->
        IF k <= IPV6_NUM_COMPONENTS THEN a.components[k - 1]
        ELSE IF k = IPV6_NUM_COMPONENTS + 1 THEN FlagWord(a.flags)
        ELSE IF k = IPV6_NUM_COMPONENTS + 2
        THEN (IF IPV6_FLAG_HAS_PORT \in a.flags THEN a.port ELSE 0)
        ELSE (IF IPV6_FLAG_HAS_MASK \in a.flags THEN a.mask ELSE 0)]

\* The sign that the first differing key decides (0: no key differs).
KeyOrder(a, b) ==
    LET differing == {k \in DOMAIN Keys(a) : Keys(a)[k] # Keys(b)[k]}
    IN  IF differing = {} THEN 0
        ELSE LET k == CHOOSE d \in differing : \A e \in differing : d <= e
             IN  Sign(Keys(a)[k] - Keys(b)[k])

\* C10: ipv6_compare is a total ordering: compare(a, a) is 0, compare(a, b)
\* and compare(b, a) have opposite signs, the order is transitive, compare(a,
\* b) is 0 exactly when components and flags are equal, and the ports if
\* has_port is set, and the masks if has_mask is set, and otherwise its sign
\* is that of the first differing key.
C10_TotalOrdering ==
    pc = "done" =>
        /\ cmp.aa = 0
        /\ Sign(cmp.ab) = -Sign(cmp.ba)
        /\ (cmp.ab <= 0 /\ cmp.bc <= 0) => cmp.ac <= 0
        /\ cmp.ab = 0 <=>
              /\ addr.components = out.components
              /\ addr.flags = out.flags
              /\ IPV6_FLAG_HAS_PORT \in addr.flags => addr.port = out.port
              /\ IPV6_FLAG_HAS_MASK \in addr.flags => addr.mask = out.mask
        /\ Sign(cmp.ab) = KeyOrder(addr, out)

\* C10's case: three addresses compared, of which a and b differ but compare
\* as 0 (their ports differ without has_port), and b and c have the same
\* components and flags and are decided by the port or the mask.
C10_Witness ==
    /\ pc = "done"
    /\ addr # out /\ cmp.ab = 0 /\ addr.port # out.port
    /\ cmp.bc < 0
    /\ out.components = third.components /\ out.flags = third.flags

====
